---- MODULE Spec2Model ----
(***************************************************************************)
(* Push-to-talk voice client: the zustand store (agentStore.ts), the App   *)
(* handlers (App.tsx), the ControlDeck button handlers, the microphone     *)
(* hook (useMicrophone.ts, first module), the WebSocket hook (useWebSocket,*)
(* unnamed/part_004, first module) and the message/limiter utilities       *)
(* (utils/websocket.ts).                                                   *)
(*                                                                         *)
(* Every handler runs to completion on the single JavaScript thread, so    *)
(* each handler is one action.  What is asynchronous in the code is a      *)
(* counter of outstanding work here: getUserMedia promises (gumPending),   *)
(* FileReader loads (encoding), playAudio promises (playing), setTimeout   *)
(* reconnects (timers) and audio_utterance messages not yet answered      *)
(* (owesUtt).                                                              *)
(*                                                                         *)
(* Left out because no handler below reads them: transcript,               *)
(* microphoneAmplitude, isMicrophoneActive, isInitialized, currentAgent.   *)
(***************************************************************************)
EXTENDS Integers, Sequences, FiniteSets, Bags, TLC

\* ---- bounds of the model ------------------------------------------------
MaxSockets == 2      \* WebSocket objects ever constructed
MaxGum == 1          \* getUserMedia promises outstanding at once
MaxStreams == 1      \* media streams live at once
MaxChunks == 1       \* bufferRef.current.chunks.length
MaxPlaying == 1      \* playAudio promises outstanding at once
MaxEncoding == 1     \* FileReader loads outstanding at once
MaxBurst == 11       \* audio_utterance messages sent in a limiter run
MaxTurns == 2        \* audio_utterance messages sent in a session run
MaxFrames == 5       \* frames classified in a capture run
MaxHookSockets == 7  \* WebSocket objects ever constructed in a hook run

\* ---- program constants --------------------------------------------------
MAX_UTTERANCES_PER_MIN == 10
WindowMs == 60000
maxReconnectAttempts == 5
END_SILENCE_MS == 700             \* documented silence that ends an utterance
MIN_UTTERANCE_DURATION_MS == 300  \* documented minimum utterance duration
\* createScriptProcessor(2048, 1, 1): one frame is 2048 samples, 256 ms on an
\* audio context running at 8 kHz
FrameMs == 256

NULL == "null"
\* instants Date.now() takes in the model (ms); they straddle one window
ClockValues == {0, 1, 59999, 60000, 60001, 120000}

VARIABLES
  agentState,            \* store.agentState
  isConnected,           \* store.isConnected
  error,                 \* store.error (NULL or a message)
  isListening,           \* store.isListening
  micActiveRef,          \* App: micActiveRef.current
  isPushDown,            \* ControlDeck: useState isPushDown
  pointerDown,           \* the user's finger/mouse button is physically down
  isRecordingRef,        \* useMicrophone: isRecordingRef.current
  mediaStreamRef,        \* useMicrophone: mediaStreamRef.current # null
  liveStreams,           \* streams acquired and not stopped (each with its
                         \* connected ScriptProcessor firing onaudioprocess)
  gumPending,            \* startMicrophone calls awaiting getUserMedia
  chunks,                \* bufferRef.current.chunks.length
  heard,                 \* what the frames buffered so far held ("speech" or
                         \* "silence"), in order; kept only in capture runs
  encoding,              \* FileReader loads in progress, as a bag: for each, what the
                         \* onUtterance closure it will call has captured
  playing,               \* playAudio promises not yet settled
  sock,                  \* readyState of each WebSocket object
  wsRef,                 \* useWebSocket: wsRef.current (0 = null)
  reconnectAttemptsRef,  \* useWebSocket: reconnectAttemptsRef.current
  timers,                \* pending setTimeout(connect, delay), as a bag of delays
  owesUtt,               \* per socket: audio_utterance sent, not answered
  now,                   \* Date.now()
  utteranceTimestamps,   \* websocket.ts module variable
  sentLog                \* Date.now() of every audio_utterance given to ws.send

\* The WebSocket objects of a run: those sock speaks of.
SockIds == DOMAIN sock

storeVars == <<agentState, isConnected, error, isListening>>
deckVars == <<isPushDown, pointerDown>>
micVars == <<isRecordingRef, mediaStreamRef, liveStreams, gumPending, chunks, heard,
            encoding>>
wsVars == <<sock, wsRef, reconnectAttemptsRef, timers, owesUtt>>
rlVars == <<now, utteranceTimestamps, sentLog>>
vars == <<storeVars, micActiveRef, deckVars, micVars, playing, wsVars, rlVars>>

AgentStates == {"idle", "listening", "thinking", "speaking", "error"}

\* ---- agentStore.ts: initial state, and useWebSocket's mount effect -------
\* The mount effect has run connect() once: socket 1 is CONNECTING.
Init ==
  /\ agentState = "idle"
  /\ isConnected = FALSE
  /\ error = NULL
  /\ isListening = FALSE
  /\ micActiveRef = FALSE
  /\ isPushDown = FALSE
  /\ pointerDown = FALSE
  /\ isRecordingRef = FALSE
  /\ mediaStreamRef = FALSE
  /\ liveStreams = 0
  /\ gumPending = 0
  /\ chunks = 0
  /\ heard = <<>>
  /\ encoding = EmptyBag
  /\ playing = 0
  /\ sock = [s \in 1..MaxSockets |-> IF s = 1 THEN "connecting" ELSE "none"]
  /\ wsRef = 1
  /\ reconnectAttemptsRef = 0
  /\ timers = EmptyBag
  /\ owesUtt = [s \in 1..MaxSockets |-> 0]
  /\ now = 0
  /\ utteranceTimestamps = <<>>
  /\ sentLog = <<>>

\* ---- useMicrophone.ts ---------------------------------------------------
\* stopMicrophone: clears the recording flag and stops the stream the ref
\* points to (with its processor and audio context).  The buffer is kept.
stopMicrophone ==
  /\ isRecordingRef' = FALSE
  /\ mediaStreamRef' = FALSE
  /\ liveStreams' = IF mediaStreamRef THEN liveStreams - 1 ELSE liveStreams

\* forceFinalize: isRecordingRef := false; stopMicrophone().  It does not
\* call finializeUtterance.
forceFinalize ==
  /\ stopMicrophone
  /\ UNCHANGED <<chunks, encoding>>

\* startMicrophone after the await: getUserMedia resolved with a stream.
GetUserMediaResolve ==
  /\ gumPending > 0
  /\ liveStreams < MaxStreams
  /\ gumPending' = gumPending - 1
  /\ mediaStreamRef' = TRUE
  /\ liveStreams' = liveStreams + 1
  /\ isRecordingRef' = TRUE
  /\ UNCHANGED <<storeVars, micActiveRef, deckVars, chunks, heard, encoding, playing,
                 wsVars, rlVars>>

\* startMicrophone's catch: getUserMedia rejected.  The promise returned to
\* handleStartListen still resolves, so its catch block never runs.
GetUserMediaReject ==
  /\ gumPending > 0
  /\ gumPending' = gumPending - 1
  /\ error' = "Microphone access denied"
  /\ UNCHANGED <<agentState, isConnected, isListening, micActiveRef, deckVars,
                 isRecordingRef, mediaStreamRef, liveStreams, chunks, heard,
                 encoding, playing, wsVars, rlVars>>

\* processor.onaudioprocess of any live stream: while recording, the frame is
\* buffered whatever it holds (its RMS only feeds the amplitude display).
OnAudioProcess ==
  /\ liveStreams > 0
  /\ chunks < MaxChunks
  /\ chunks' = IF isRecordingRef THEN chunks + 1 ELSE chunks
  /\ UNCHANGED <<storeVars, micActiveRef, deckVars, isRecordingRef, mediaStreamRef,
                 liveStreams, gumPending, heard, encoding, playing, wsVars, rlVars>>

\* The same handler in a capture run, where what the frame holds is recorded.
Frames == {"speech", "silence"}

OnAudioFrame(f) ==
  /\ liveStreams > 0
  /\ Len(heard) < MaxFrames
  /\ chunks' = IF isRecordingRef THEN chunks + 1 ELSE chunks
  /\ heard' = IF isRecordingRef THEN Append(heard, f) ELSE heard
  /\ UNCHANGED <<storeVars, micActiveRef, deckVars, isRecordingRef, mediaStreamRef,
                 liveStreams, gumPending, encoding, playing, wsVars, rlVars>>

\* ---- App.tsx ------------------------------------------------------------
\* Mutant of handleStartListen: the agentState === 'speaking' test is missing.
handleStartListen_NoSpeakingCheck ==
  IF ~isConnected
  THEN /\ error' = "Not connected - please refresh"
       /\ UNCHANGED <<agentState, isListening, micActiveRef, gumPending>>
  ELSE /\ micActiveRef' = TRUE
       /\ isListening' = TRUE
       /\ agentState' = "listening"
       /\ error' = NULL
       /\ gumPending' = gumPending + 1

\* handleStartListen up to its await.
handleStartListen ==
  IF ~isConnected
  THEN /\ error' = "Not connected - please refresh"
       /\ UNCHANGED <<agentState, isListening, micActiveRef, gumPending>>
  ELSE IF agentState = "speaking"
  THEN /\ error' = "Wait for agent to finish speaking"
       /\ UNCHANGED <<agentState, isListening, micActiveRef, gumPending>>
  ELSE /\ micActiveRef' = TRUE
       /\ isListening' = TRUE
       /\ agentState' = "listening"
       /\ error' = NULL
       /\ gumPending' = gumPending + 1

\* handleClear: resets the store fields and micActiveRef; the microphone
\* hook is not touched.
handleClear ==
  /\ agentState' = "idle"
  /\ error' = NULL
  /\ isListening' = FALSE
  /\ micActiveRef' = FALSE

\* onDisconnect: stop the microphone only if micActiveRef.current.
onDisconnect ==
  IF micActiveRef THEN stopMicrophone
  ELSE UNCHANGED <<isRecordingRef, mediaStreamRef, liveStreams>>

\* ---- ControlDeck.tsx ----------------------------------------------------
\* With error set the component renders the error view: no buttons.
ButtonsRendered == error = NULL

\* handleMouseDown / handleTouchStart on the push-to-talk button.
HandleMouseDown ==
  /\ ~pointerDown
  /\ ButtonsRendered /\ isConnected
  /\ agentState = "speaking" \/ gumPending < MaxGum
  /\ pointerDown' = TRUE
  /\ isPushDown' = TRUE
  /\ handleStartListen
  /\ UNCHANGED <<isConnected, isRecordingRef, mediaStreamRef, liveStreams, chunks,
                 heard, encoding, playing, wsVars, rlVars>>

\* The pointer is released.  handleMouseUp runs if the button is rendered
\* and enabled; on a disabled button the browser may or may not deliver the
\* event; with the error view there is no button to receive it.
\* handleMouseUp: onForceFinalize() then onStopListen(), both forceFinalize.
HandleMouseUp ==
  /\ pointerDown
  /\ pointerDown' = FALSE
  /\ \E delivered \in BOOLEAN :
       /\ delivered => ButtonsRendered
       /\ (ButtonsRendered /\ isConnected) => delivered
       /\ IF delivered /\ isPushDown
          THEN /\ isPushDown' = FALSE
               /\ forceFinalize
          ELSE UNCHANGED <<isPushDown, isRecordingRef, mediaStreamRef, liveStreams,
                           chunks, encoding>>
  /\ UNCHANGED <<storeVars, micActiveRef, gumPending, heard, playing, wsVars, rlVars>>

\* Click on Clear (a click needs the pointer to be free).
HandleClear ==
  /\ ~pointerDown
  /\ ButtonsRendered /\ isConnected
  /\ handleClear
  /\ UNCHANGED <<isConnected, deckVars, micVars, playing, wsVars, rlVars>>

\* ---- useWebSocket (unnamed/part_004) ------------------------------------
Alive(s) == sock[s] \in {"connecting", "open", "closing"}
FreshIds == {s \in SockIds : sock[s] = "none"}
NextId == CHOOSE s \in FreshIds : \A t \in FreshIds : s <= t

\* ws.close(): CONNECTING or OPEN becomes CLOSING; otherwise nothing.
AfterClose(st) == IF st \in {"connecting", "open"} THEN "closing" ELSE st

\* connect() without its look at the existing connection.
connect_AlwaysNew ==
  /\ FreshIds # {}
  /\ sock' = [s \in SockIds |-> IF s = NextId THEN "connecting" ELSE sock[s]]
  /\ wsRef' = NextId

\* connect(): return if the current socket is OPEN; otherwise close it and
\* construct a new WebSocket, which becomes wsRef.current.
connect ==
  IF wsRef # 0 /\ sock[wsRef] = "open"
  THEN UNCHANGED <<sock, wsRef>>
  ELSE /\ FreshIds # {}
       /\ sock' = [s \in SockIds |->
                     IF s = NextId THEN "connecting"
                     ELSE IF s = wsRef THEN AfterClose(sock[s])
                     ELSE sock[s]]
       /\ wsRef' = NextId

\* ws.onopen of socket s.  sendInit writes the init message; the model keeps
\* no record of it, the server's 'ready' changing nothing in the client.
OnOpen(s) ==
  /\ sock[s] = "connecting"
  /\ sock' = [sock EXCEPT ![s] = "open"]
  /\ isConnected' = TRUE
  /\ error' = NULL
  /\ reconnectAttemptsRef' = 0
  /\ UNCHANGED <<agentState, isListening, micActiveRef, deckVars, micVars, playing,
                 wsRef, timers, owesUtt, rlVars>>

\* Math.min(1000 * Math.pow(2, n), 30000)
ReconnectDelay(n) == IF 1000 * 2^n < 30000 THEN 1000 * 2^n ELSE 30000

\* The reconnect decision with one attempt too many.
ScheduleReconnect_OneMore(err) ==
  IF reconnectAttemptsRef <= maxReconnectAttempts
  THEN /\ reconnectAttemptsRef' = reconnectAttemptsRef + 1
       /\ timers' = timers (+) SetToBag({ReconnectDelay(reconnectAttemptsRef + 1)})
       /\ error' = err
  ELSE /\ error' = "Failed to connect to server after multiple attempts. Please refresh."
       /\ UNCHANGED <<reconnectAttemptsRef, timers>>

\* The reconnect decision at the end of ws.onclose.
ScheduleReconnect(err) ==
  IF reconnectAttemptsRef < maxReconnectAttempts
  THEN /\ reconnectAttemptsRef' = reconnectAttemptsRef + 1
       /\ timers' = timers (+) SetToBag({ReconnectDelay(reconnectAttemptsRef + 1)})
       /\ error' = err
  ELSE /\ error' = "Failed to connect to server after multiple attempts. Please refresh."
       /\ UNCHANGED <<reconnectAttemptsRef, timers>>

\* Socket s closes (server close, network loss, failed handshake, or the
\* end of a close() the client asked for).  With failed, ws.onerror runs
\* first and sets the error; then ws.onclose runs.
OnClose(s, failed) ==
  /\ Alive(s)
  /\ sock' = [sock EXCEPT ![s] = "closed"]
  /\ owesUtt' = [owesUtt EXCEPT ![s] = 0]
  /\ isConnected' = FALSE
  /\ agentState' = "idle"
  /\ onDisconnect
  /\ ScheduleReconnect(IF failed THEN "WebSocket connection error" ELSE error)
  /\ UNCHANGED <<isListening, micActiveRef, deckVars, gumPending, chunks, heard,
                 encoding, playing, wsRef, rlVars>>

\* setTimeout(connect, delay) fires.
ReconnectTimer ==
  /\ \E d \in BagToSet(timers) : timers' = timers (-) SetToBag({d})
  /\ connect
  /\ UNCHANGED <<storeVars, micActiveRef, deckVars, micVars, playing,
                 reconnectAttemptsRef, owesUtt, rlVars>>

\* ---- utils/websocket.ts: handleWebSocketMessage -------------------------
\* The server sends audio_response only in answer to an audio_utterance; an
\* error event it may send at any time (in answer to an utterance or not).
\* case 'ready': nothing but a log line.
OnMessageReady(s) ==
  /\ sock[s] = "open"
  /\ UNCHANGED vars

ResponseKinds == {"data", "text", "empty"}

\* case 'audio_response': speaking; with data, playAudio is started and its
\* promise sets idle later; with text only, idle at once; with neither,
\* nothing more.
AudioResponse(kind) ==
  /\ kind = "data" => playing < MaxPlaying
  /\ agentState' = IF kind = "text" THEN "idle" ELSE "speaking"
  /\ playing' = IF kind = "data" THEN playing + 1 ELSE playing

OnMessageAudioResponse(s, kind) ==
  /\ sock[s] = "open"
  /\ owesUtt[s] > 0
  /\ owesUtt' = [owesUtt EXCEPT ![s] = @ - 1]
  /\ AudioResponse(kind)
  /\ UNCHANGED <<isConnected, error, isListening, micActiveRef, deckVars, micVars,
                 sock, wsRef, reconnectAttemptsRef, timers, rlVars>>

\* case 'error': setError(message); setAgentState('error').
OnMessageError(s, toUtterance) ==
  /\ sock[s] = "open"
  /\ IF toUtterance
     THEN /\ owesUtt[s] > 0
          /\ owesUtt' = [owesUtt EXCEPT ![s] = @ - 1]
     ELSE UNCHANGED owesUtt
  /\ error' = "server error"
  /\ agentState' = "error"
  /\ UNCHANGED <<isConnected, isListening, micActiveRef, deckVars, micVars, playing,
                 sock, wsRef, reconnectAttemptsRef, timers, rlVars>>

\* playAudio's promise settles; .then and .catch both set idle.
PlayAudioSettled ==
  /\ playing > 0
  /\ playing' = playing - 1
  /\ agentState' = "idle"
  /\ UNCHANGED <<isConnected, error, isListening, micActiveRef, deckVars, micVars,
                 wsVars, rlVars>>

\* ---- utils/websocket.ts: the rate limiter and the send path -------------
\* Mutant of Kept: the filter keeps ts >= oneMinuteAgo.
Kept_Inclusive(ts, t) == SelectSeq(ts, LAMBDA x : x >= t - WindowMs)

\* utteranceTimestamps.filter(ts => ts > oneMinuteAgo)
Kept(ts, t) == SelectSeq(ts, LAMBDA x : x > t - WindowMs)

\* Mutant of checkRateLimit: the limit test is > instead of >=.
checkRateLimit_OffByOne(ts, t) == ~(Len(Kept(ts, t)) > MAX_UTTERANCES_PER_MIN)

\* checkRateLimit(): the value it returns ...
checkRateLimit(ts, t) == ~(Len(Kept(ts, t)) >= MAX_UTTERANCES_PER_MIN)

\* ... and the utteranceTimestamps it leaves.
AfterCheck(ts, t) ==
  IF checkRateLimit(ts, t) THEN Append(Kept(ts, t), t) ELSE Kept(ts, t)

\* sendAudioUtterance(ws, ...) returns true.
Sent(s) == sock[s] = "open" /\ checkRateLimit(utteranceTimestamps, now)

\* sendAudioUtterance on socket s: readyState check, checkRateLimit, ws.send.
\* agentState and error are left to the caller's frame condition.
sendAudioUtterance(s) ==
  /\ utteranceTimestamps' =
       IF sock[s] = "open" THEN AfterCheck(utteranceTimestamps, now)
       ELSE utteranceTimestamps
  /\ owesUtt' = IF Sent(s) THEN [owesUtt EXCEPT ![s] = @ + 1] ELSE owesUtt
  /\ sentLog' = IF Sent(s) THEN Append(sentLog, now) ELSE sentLog

\* useWebSocket.sendUtterance: only with a socket in wsRef.
sendUtterance ==
  IF wsRef # 0 THEN sendAudioUtterance(wsRef)
  ELSE UNCHANGED <<utteranceTimestamps, owesUtt, sentLog>>

UtteranceSent == wsRef # 0 /\ Sent(wsRef)
RateLimited == wsRef # 0 /\ sock[wsRef] = "open" /\ ~checkRateLimit(utteranceTimestamps, now)

\* App.handleUtterance: the onUtterance callback.  Its closure c captured
\* wsConnected and agentState; of agentState it reads only whether it is
\* 'listening'.
handleUtterance(c) ==
  IF ~c.wsConnected
  THEN /\ error' = "Connection lost"
       /\ UNCHANGED <<agentState, isListening, micActiveRef, utteranceTimestamps,
                      owesUtt, sentLog>>
  ELSE /\ micActiveRef' = FALSE
       /\ sendUtterance
       /\ isListening' = FALSE
       /\ error' = IF RateLimited THEN "Rate limited: Max 10 utterances per minute"
                   ELSE error
       /\ agentState' = IF c.listening \/ UtteranceSent
                        THEN "thinking" ELSE agentState

\* ---- useMicrophone.ts: the utterance path -------------------------------
\* finializeUtterance: with chunks buffered, start encoding them and reset
\* the buffer.  The onUtterance it will call is the handleUtterance of the
\* render current at the call.  No code in the repository calls it; SpecU
\* lets it be called (on release, or by a silence detector) so that the
\* send path is exercised.
Closures == [wsConnected : BOOLEAN, listening : BOOLEAN]

FinializeUtterance ==
  /\ chunks > 0
  /\ BagCardinality(encoding) < MaxEncoding
  /\ encoding' = encoding (+) SetToBag({[wsConnected |-> isConnected,
                                      listening |-> agentState = "listening"]})
  /\ chunks' = 0
  /\ UNCHANGED <<storeVars, micActiveRef, deckVars, isRecordingRef, mediaStreamRef,
                 liveStreams, gumPending, heard, playing, wsVars, rlVars>>

\* reader.onloadend of a pending load: onUtterance(base64, durationMs).
OnUtterance(c) ==
  /\ BagIn(c, encoding)
  /\ encoding' = encoding (-) SetToBag({c})
  /\ handleUtterance(c)
  /\ UNCHANGED <<isConnected, deckVars, isRecordingRef, mediaStreamRef, liveStreams,
                 gumPending, chunks, heard, playing, sock, wsRef, reconnectAttemptsRef,
                 timers, now>>

\* reader.onloadend in a session run (at most MaxTurns messages sent).
ReaderOnLoadEnd(c) ==
  /\ Len(sentLog) < MaxTurns
  /\ OnUtterance(c)

\* reader.onloadend in a limiter run (at most MaxBurst messages sent).
ReaderOnLoadEndL(c) ==
  /\ Len(sentLog) < MaxBurst
  /\ OnUtterance(c)

\* ---- specifications -----------------------------------------------------
\* The client as wired in the source.
Next ==
  \/ HandleMouseDown
  \/ HandleMouseUp
  \/ HandleClear
  \/ GetUserMediaResolve
  \/ GetUserMediaReject
  \/ OnAudioProcess
  \/ \E s \in SockIds : OnOpen(s)
  \/ \E s \in SockIds, failed \in BOOLEAN : OnClose(s, failed)
  \/ ReconnectTimer
  \/ \E s \in SockIds : OnMessageReady(s)
  \/ \E s \in SockIds : OnMessageError(s, FALSE)

Spec == Init /\ [][Next]_vars

\* The client with the utterance path running.
NextU ==
  \/ Next
  \/ FinializeUtterance
  \/ \E c \in Closures : ReaderOnLoadEnd(c)
  \/ \E s \in SockIds, kind \in ResponseKinds : OnMessageAudioResponse(s, kind)
  \/ \E s \in SockIds : OnMessageError(s, TRUE)
  \/ PlayAudioSettled

SpecU == Init /\ [][NextU]_vars

\* SpecU with the progress the browser guarantees to work the client has
\* started: a playAudio promise settles (the clip ends or fails) and a
\* FileReader load ends.  The user, the server and the network owe nothing.
SpecUF ==
  /\ SpecU
  /\ WF_vars(PlayAudioSettled)
  /\ WF_vars(\E c \in Closures : OnUtterance(c))

\* The limiter driven directly: the connection opens, the clock advances,
\* and a caller submits utterances through useWebSocket.sendUtterance.
Tick ==
  /\ \E t \in ClockValues : t > now /\ now' = t
  /\ UNCHANGED <<storeVars, micActiveRef, deckVars, micVars, playing, wsVars,
                 utteranceTimestamps, sentLog>>

SubmitUtterance ==
  /\ Len(sentLog) < MaxBurst
  /\ sendUtterance
  /\ error' = IF RateLimited THEN "Rate limited: Max 10 utterances per minute"
              ELSE error
  /\ agentState' = IF UtteranceSent THEN "thinking" ELSE agentState
  /\ UNCHANGED <<isConnected, isListening, micActiveRef, deckVars, micVars, playing,
                 sock, wsRef, reconnectAttemptsRef, timers, now>>

NextRL ==
  \/ \E s \in SockIds : OnOpen(s)
  \/ Tick
  \/ SubmitUtterance

SpecRL == Init /\ [][NextRL]_vars

\* The client with the utterance path running, late in a busy minute: the
\* connection is open and MAX_UTTERANCES_PER_MIN utterances were sent at
\* instant 0, each answered with a text-only audio_response.
InitL ==
  /\ agentState = "idle"
  /\ isConnected = TRUE
  /\ error = NULL
  /\ isListening = FALSE
  /\ micActiveRef = FALSE
  /\ isPushDown = FALSE
  /\ pointerDown = FALSE
  /\ isRecordingRef = FALSE
  /\ mediaStreamRef = FALSE
  /\ liveStreams = 0
  /\ gumPending = 0
  /\ chunks = 0
  /\ heard = <<>>
  /\ encoding = EmptyBag
  /\ playing = 0
  /\ sock = [s \in 1..MaxSockets |-> IF s = 1 THEN "open" ELSE "none"]
  /\ wsRef = 1
  /\ reconnectAttemptsRef = 0
  /\ timers = EmptyBag
  /\ owesUtt = [s \in 1..MaxSockets |-> 0]
  /\ now = 0
  /\ utteranceTimestamps = [i \in 1..MAX_UTTERANCES_PER_MIN |-> 0]
  /\ sentLog = [i \in 1..MAX_UTTERANCES_PER_MIN |-> 0]

NextL ==
  \/ HandleMouseDown
  \/ HandleMouseUp
  \/ HandleClear
  \/ GetUserMediaResolve
  \/ GetUserMediaReject
  \/ OnAudioProcess
  \/ FinializeUtterance
  \/ \E c \in Closures : ReaderOnLoadEndL(c)
  \/ Tick

SpecL == InitL /\ [][NextL]_vars

\* A capture run: the push-to-talk path with what each frame holds recorded,
\* and finializeUtterance called at any moment, as in SpecU.
NextV ==
  \/ \E s \in SockIds : OnOpen(s)
  \/ HandleMouseDown
  \/ HandleMouseUp
  \/ GetUserMediaResolve
  \/ \E f \in Frames : OnAudioFrame(f)
  \/ FinializeUtterance

SpecV == Init /\ [][NextV]_vars

\* ---- properties ---------------------------------------------------------
\* Capture is active: a live stream whose frames are being buffered.
CaptureActive == liveStreams > 0 /\ isRecordingRef

\* The useWebSocket hook on its own: the sockets' events, the reconnect
\* timers, and the connect and disconnect the hook returns called at any
\* moment.  The state after mount, with room for MaxHookSockets sockets.
InitC ==
  /\ agentState = "idle"
  /\ isConnected = FALSE
  /\ error = NULL
  /\ isListening = FALSE
  /\ micActiveRef = FALSE
  /\ isPushDown = FALSE
  /\ pointerDown = FALSE
  /\ isRecordingRef = FALSE
  /\ mediaStreamRef = FALSE
  /\ liveStreams = 0
  /\ gumPending = 0
  /\ chunks = 0
  /\ heard = <<>>
  /\ encoding = EmptyBag
  /\ playing = 0
  /\ sock = [s \in 1..MaxHookSockets |-> IF s = 1 THEN "connecting" ELSE "none"]
  /\ wsRef = 1
  /\ reconnectAttemptsRef = 0
  /\ timers = EmptyBag
  /\ owesUtt = [s \in 1..MaxHookSockets |-> 0]
  /\ now = 0
  /\ utteranceTimestamps = <<>>
  /\ sentLog = <<>>

\* A call of the connect the hook returns.
Connect ==
  /\ connect
  /\ UNCHANGED <<storeVars, micActiveRef, deckVars, micVars, playing,
                 reconnectAttemptsRef, timers, owesUtt, rlVars>>

\* disconnect(), and the cleanup of the mount effect: close the current
\* socket and forget it.  Its handlers stay attached.
Disconnect ==
  /\ wsRef # 0
  /\ sock' = [sock EXCEPT ![wsRef] = AfterClose(@)]
  /\ wsRef' = 0
  /\ UNCHANGED <<storeVars, micActiveRef, deckVars, micVars, playing,
                 reconnectAttemptsRef, timers, owesUtt, rlVars>>

NextC ==
  \/ \E s \in SockIds : OnOpen(s)
  \/ \E s \in SockIds, failed \in BOOLEAN : OnClose(s, failed)
  \/ ReconnectTimer
  \/ Connect
  \/ Disconnect

SpecC == InitC /\ [][NextC]_vars

\* C1: capture is active only while agentState is listening; never while it
\* is idle, thinking, speaking or error.
C1_CaptureOnlyWhileListening == CaptureActive => agentState = "listening"

\* C2: the microphone never captures while audio of an audio_response is
\* still playing.
C2_NoCaptureDuringPlayback == ~(CaptureActive /\ playing > 0)

\* C3: at most one audio_utterance is in flight (sent and not yet answered)
\* on a connection at any time.
C3_AtMostOneInFlight == \A s \in SockIds : owesUtt[s] <= 1

\* C4: while the connection stays open, agentState changes only along
\* idle->listening, listening->thinking, thinking->speaking, speaking->idle,
\* anything->error and error->idle.
AllowedSteps ==
  {<<"idle", "listening">>, <<"listening", "thinking">>, <<"thinking", "speaking">>,
   <<"speaking", "idle">>, <<"error", "idle">>}
  \cup {<<x, "error">> : x \in AgentStates}

C4_TurnStateSteps ==
  [][(isConnected /\ isConnected' /\ agentState' # agentState)
       => <<agentState, agentState'>> \in AllowedSteps]_vars

\* C5: a press of the push-to-talk button while agentState is speaking is
\* rejected: agentState stays speaking, no microphone start is issued or
\* left pending, nothing of the microphone changes, and the error is set to
\* "Wait for agent to finish speaking".
PressStep == ~pointerDown /\ pointerDown'

C5_SpeakingRejectsStart ==
  [][(PressStep /\ agentState = "speaking")
       => /\ agentState' = "speaking"
          /\ error' = "Wait for agent to finish speaking"
          /\ UNCHANGED <<micVars, micActiveRef, isListening>>]_vars

\* C5 witness: the button is held after a press that was rejected during
\* speaking.
C5_Witness ==
  pointerDown /\ agentState = "speaking" /\ error = "Wait for agent to finish speaking"

\* C6: a submission is accepted exactly when fewer than 10 sent utterances
\* lie in the window (now - 60000, now], and no window (t - 60000, t] ever
\* holds more than 10 sent utterances.
InWindow(t) == Cardinality({i \in 1..Len(sentLog) : sentLog[i] > t - 60000 /\ sentLog[i] <= t})

CheckStep == now' = now /\ sock' = sock /\ wsRef # 0 /\ sock[wsRef] = "open"

\* C7 as stated: checkRateLimit evicts exactly the timestamps older than
\* now - 60000 (one exactly 60000 ms old is kept), then records now iff fewer
\* than 10 remain.
KeptAsStated(ts, t) == SelectSeq(ts, LAMBDA x : ~(x < t - 60000))

Younger(ts, t) == SelectSeq(ts, LAMBDA x : t - x < 60000)

ReleaseStep == pointerDown /\ ~pointerDown' /\ isPushDown /\ ~isPushDown'

C8_ReleaseFinalizes ==
  [][(ReleaseStep /\ chunks > 0) => BagCardinality(encoding') = BagCardinality(encoding) + 1]_vars

\* C9: whenever a socket closes, in the resulting state capture is not
\* active and agentState is idle.
CloseStep == \E s \in SockIds : Alive(s) /\ sock'[s] = "closed"

C9_DisconnectResets ==
  [][CloseStep => (~CaptureActive' /\ agentState' = "idle")]_vars

\* C10: after the connection made at mount, the client constructs no
\* further WebSocket on its own.
C10_NoAutoReconnect ==
  [][\A s \in SockIds : sock[s] = "none" => sock'[s] = "none"]_vars

\* C11: agentState goes from listening to thinking only in a step that gives
\* an audio_utterance to ws.send (accepted by the limiter, socket open); a
\* rejected or unsendable utterance never makes it thinking.
C11_ThinkingOnlyIfSent ==
  [][(agentState = "listening" /\ agentState' = "thinking") => sentLog' # sentLog]_vars

\* C12: Speaking always ends: whenever agentState is speaking, it eventually
\* is no longer speaking, whatever the audio_response carried (data, text
\* only, or neither).
C12_SpeakingEnds == (agentState = "speaking") ~> (agentState # "speaking")

\* C13: Thinking is never a stuck state: whenever agentState is thinking, it
\* eventually is no longer thinking, even if the server never answers.
C13_ThinkingEnds == (agentState = "thinking") ~> (agentState # "thinking")

\* C14: when the microphone acquisition of a start-listen request fails, the
\* turn ends: agentState is idle (not left listening) and an error message
\* is set.
AcquisitionFailedStep == gumPending' < gumPending /\ liveStreams' = liveStreams

C14_CaptureFaultEndsTurn ==
  [][AcquisitionFailedStep => (agentState' = "idle" /\ error' # NULL)]_vars

\* C15: capture is retriable after a capture fault: with the failed
\* acquisition's message showing, the connection open and the pointer free, a
\* press of the push-to-talk button is taken by handleMouseDown (and so
\* issues a new start-listen request), without a reconnect.
C15_CaptureRetriable ==
  (error = "Microphone access denied" /\ isConnected /\ ~pointerDown /\ gumPending < MaxGum)
    => ENABLED HandleMouseDown

\* C16: a rate-limit rejection is retriable: with the rejection's message
\* showing, once the window has slid so that the limiter would accept again,
\* on the same open connection and with the pointer free, a press of the
\* push-to-talk button is taken by handleMouseDown.
C16_RateLimitRetriable ==
  ( /\ error = "Rate limited: Max 10 utterances per minute"
    /\ checkRateLimit(utteranceTimestamps, now)
    /\ isConnected /\ ~pointerDown /\ gumPending < MaxGum )
    => ENABLED HandleMouseDown

\* C17: idempotent reset: every step that takes agentState from error back
\* to idle leaves capture stopped and the capture buffer empty, and leaves
\* the rate limiter's recorded timestamps as they were.
ResetStep == agentState = "error" /\ agentState' = "idle"

C17_ResetLandsClean ==
  [][ResetStep => /\ ~CaptureActive' /\ liveStreams' = 0
                  /\ chunks' = 0
                  /\ utteranceTimestamps' = utteranceTimestamps]_vars

\* C18: the capture buffer is empty after every step that stops capture and
\* after every step that finalizes an utterance, so that no chunk of one
\* recording is left for the next.
CaptureStopStep == CaptureActive /\ ~CaptureActive'
FinalizeStep == BagCardinality(encoding') > BagCardinality(encoding)

C18_BufferEmptyAfterStop ==
  [][(CaptureStopStep \/ FinalizeStep) => chunks' = 0]_vars

\* What the frames of a capture run held.
SpeechIdx(h) == {i \in 1..Len(h) : h[i] = "speech"}
OneRegion(h) ==
  /\ SpeechIdx(h) # {}
  /\ \A i \in SpeechIdx(h), j \in SpeechIdx(h) : \A k \in i..j : h[k] = "speech"
LastSpeech(h) == CHOOSE i \in SpeechIdx(h) : \A j \in SpeechIdx(h) : j <= i
FirstSpeech(h) == CHOOSE i \in SpeechIdx(h) : \A j \in SpeechIdx(h) : i <= j
RegionMs(h) == Cardinality(SpeechIdx(h)) * FrameMs
TrailingSilenceMs(h) == (Len(h) - LastSpeech(h)) * FrameMs

\* C19: utterance correctness: the frame that completes END_SILENCE_MS of
\* silence after the one speech region of a capture run produces the
\* utterance: exactly one utterance is started on its way to onUtterance in
\* that step.
SilenceBoundaryStep ==
  /\ heard' # heard
  /\ OneRegion(heard) /\ OneRegion(heard')
  /\ TrailingSilenceMs(heard) < END_SILENCE_MS
  /\ TrailingSilenceMs(heard') >= END_SILENCE_MS

C19_OneUtterancePerRegion ==
  [][SilenceBoundaryStep
       => BagCardinality(encoding') = BagCardinality(encoding) + 1]_vars

\* C20: discard rule: a capture run that held no speech at all, or only one
\* burst shorter than MIN_UTTERANCE_DURATION_MS with silence before and after
\* it, produces no utterance: nothing is on its way to onUtterance and
\* nothing was sent.
ShortBurst(h) ==
  /\ OneRegion(h)
  /\ RegionMs(h) < MIN_UTTERANCE_DURATION_MS
  /\ FirstSpeech(h) > 1
  /\ LastSpeech(h) < Len(h)

NoSpeech(h) == Len(h) > 0 /\ SpeechIdx(h) = {}

OpenStep == \E s \in SockIds : sock[s] = "connecting" /\ sock'[s] = "open"

C21_WindowPerConnection == [][OpenStep => utteranceTimestamps' = <<>>]_vars

\* C22: no silent drop: when a finalized utterance is handed to onUtterance
\* and is not given to ws.send, an error message is set.
DeliveryStep == BagCardinality(encoding') < BagCardinality(encoding)

C22_NoSilentDrop ==
  [][(DeliveryStep /\ sentLog' = sentLog) => error' # NULL]_vars

\* C23: stale capture callbacks are harmless: once the release has stopped a
\* capture cycle (isPushDown is false again), no audio-frame callback of that
\* cycle appends to the buffer that the next cycle will use.
FrameBufferedStep == chunks' > chunks

C23_StaleFramesDropped == [][FrameBufferedStep => isPushDown]_vars

\* C24: late results are discarded: a playAudio promise of an earlier turn
\* that settles while agentState is listening or thinking leaves agentState
\* as it is.
PlaybackSettledStep == playing' < playing

C24_LatePlaybackIgnored ==
  [][(PlaybackSettledStep /\ agentState \in {"listening", "thinking"})
       => agentState' = agentState]_vars

\* C26: start/stop race: when getUserMedia resolves after the button was
\* released, or after the connection was lost, no capture becomes active.
AcquiredStep == liveStreams' > liveStreams

C26_LateAcquisitionReleased ==
  [][(AcquiredStep /\ (~isPushDown \/ ~isConnected)) => ~CaptureActive']_vars

\* C27: every press is closed by a stop: when the user releases the button
\* of a registered press whose capture is active, capture is stopped, whatever
\* error was set while the button was held.
PointerUpStep == pointerDown /\ ~pointerDown'

C27_ReleaseStopsCapture ==
  [][(PointerUpStep /\ isPushDown /\ CaptureActive) => ~CaptureActive']_vars

\* C30: a failed send has no side effects: when an utterance handed to
\* onUtterance is not given to ws.send, no timestamp is added to the limiter
\* window and agentState is unchanged.
C30_FailedSendNoEffect ==
  [][(DeliveryStep /\ sentLog' = sentLog)
       => /\ Len(utteranceTimestamps') <= Len(utteranceTimestamps)
          /\ agentState' = agentState]_vars

\* C25: single connection: after every step at most one WebSocket is open or
\* connecting, and a step taken while the current socket is open constructs
\* no WebSocket, whatever the order of connect calls, close events and
\* reconnect timers.
LiveSockets == {s \in SockIds : sock[s] \in {"connecting", "open"}}
ConstructStep == \E s \in SockIds : sock[s] = "none" /\ sock'[s] # "none"

StatedDelay(k) == IF 1000 * 2^k <= 30000 THEN 1000 * 2^k ELSE 30000
ScheduledStep == BagCardinality(timers') > BagCardinality(timers)

ConnectCallStep == wsRef' # 0 /\ timers' = timers

C29_QuietAfterDisconnect ==
  [][(wsRef = 0 /\ ~ConnectCallStep) =>
       /\ ~ConstructStep
       /\ isConnected' = isConnected
       /\ agentState' = agentState
       /\ error' = error]_vars

====
